---- MODULE Spec2Model ----
(***************************************************************************)
(* Model of src/app.py: a Streamlit script that records daily symptom      *)
(* flags in a pandas table, persists the table as a CSV file and           *)
(* aggregates it into a monthly prevalence summary.                        *)
(*                                                                         *)
(* A table (DataFrame) is [cols |-> set of column names,                   *)
(*                         rows |-> sequence of functions cols -> cell].   *)
(* A Timestamp is the integer yyyymmdd (its order is the calendar order).  *)
(* A file is [kind, header, lines]: kind "absent" (no such path),          *)
(* "malformed" (pd.read_csv raises on it: empty or undecodable content, or *)
(* no Date column) or "csv" (a header and text lines).  A date is written  *)
(* as the text fields <<yyyy, mm, dd>>, a boolean as "True" / "False".     *)
(***************************************************************************)
EXTENDS Integers, Sequences, FiniteSets, TLC

VARIABLES
    fs,                   \* the file system: path -> file
    all_symptom_data_df,  \* the module-level table (lines 119, 150-152, 167)
    monthly_summary_df,   \* the summary computed by the last "view" run
    run,                  \* which button the last script run handled
    diag,                 \* the messages the last script run emitted
    crashed,              \* an exception escaped a script run
    recorded,             \* history: the last entry a submit run recorded
    hist,                 \* history: the tables before the last two upserts
    entries               \* history: the last two upserted entries

vars == <<fs, all_symptom_data_df, monthly_summary_df, run, diag, crashed,
          recorded, hist, entries>>

----------------------------------------------------------------------------
(* Bounds of the model *)

NumSymptoms == 1
NumDates == 2
MaxRows == 2

----------------------------------------------------------------------------
(* Constants of the program *)

DATA_FILE == [dir |-> "", base |-> "symptom_data.csv"]

AllSymptoms ==
    <<"Cramps", "Bloating", "Mood Swings", "Fatigue", "Headaches",
      "Back Pain", "Food Cravings", "Acne">>

SYMPTOMS == {AllSymptoms[i] : i \in 1..NumSymptoms}

data_entry_structure ==
    [c \in {"Date"} \cup SYMPTOMS |->
        IF c = "Date" THEN "datetime64[ns]" ELSE "bool"]

COLUMNS == DOMAIN data_entry_structure

\* The days the date input offers in the model (two years, three months).
Calendar == <<20231231, 20240101, 20240115, 20240201, 20240202, 20250101>>

Dates == {Calendar[i] : i \in 1..NumDates}

\* The states of the checkboxes: one boolean per symptom.
CheckboxInputs == [SYMPTOMS -> BOOLEAN]

----------------------------------------------------------------------------
(* Timestamps, text and numbers *)

dt_year(ts) == ts \div 10000

dt_month(ts) == (ts \div 100) % 100

dt_day(ts) == ts % 100

\* to_csv writes a Timestamp as YYYY-MM-DD.
format_date(ts) == <<dt_year(ts), dt_month(ts), dt_day(ts)>>

\* read_csv(parse_dates=['Date']) parses YYYY-MM-DD back into a Timestamp.
parse_date(txt) == txt[1] * 10000 + txt[2] * 100 + txt[3]

format_bool(b) == IF b THEN "True" ELSE "False"

parse_bool(txt) == txt = "True"

RECURSIVE GCD(_, _)
GCD(a, b) == IF b = 0 THEN a ELSE GCD(b, a % b)

\* A float is modelled as the exact fraction in lowest terms.
Frac(n, d) == LET g == GCD(n, d) IN [num |-> n \div g, den |-> d \div g]

----------------------------------------------------------------------------
(* Tables *)

EmptyFrame(cols) == [cols |-> cols, rows |-> <<>>]

df_empty(df) == df.rows = <<>> \/ df.cols = {}

\* pd.DataFrame(columns=structure.keys()).astype(structure)
empty_structured(structure) == EmptyFrame(DOMAIN structure)

RowOf(d, flags) == [c \in COLUMNS |-> IF c = "Date" THEN d ELSE flags[c]]

Records == {RowOf(d, f) : d \in Dates, f \in CheckboxInputs}

RECURSIVE SeqsUpTo(_, _)
SeqsUpTo(S, n) ==
    IF n = 0 THEN {<<>>}
    ELSE LET shorter == SeqsUpTo(S, n - 1)
         IN shorter \cup {Append(s, x) : s \in {t \in shorter : Len(t) = n - 1}, x \in S}

----------------------------------------------------------------------------
(* The file system *)

NoFile == [kind |-> "absent", header |-> {}, lines |-> <<>>]

Malformed == [kind |-> "malformed", header |-> {}, lines |-> <<>>]

os_path_dirname(path) == path.dir

os_path_exists(files, path) == files[path].kind # "absent"

\* os.makedirs(name, exist_ok=True) raises FileNotFoundError for the empty
\* name (mkdir('') fails and '' is no directory); any other name is created.
os_makedirs_raises(name) == name = ""

\* df.to_csv(file_path, index=False): a header and one text line per row.
to_csv(df) ==
    [kind |-> "csv",
     header |-> df.cols,
     lines |-> [i \in 1..Len(df.rows) |->
                  [c \in df.cols |->
                      IF c = "Date" THEN format_date(df.rows[i][c])
                      ELSE format_bool(df.rows[i][c])]]]

\* pd.read_csv(file_path, parse_dates=['Date']): raises on a malformed file
\* (which includes a header without the Date column).
read_csv(file) ==
    IF file.kind # "csv" \/ "Date" \notin file.header
    THEN [raised |-> TRUE, df |-> EmptyFrame({})]
    ELSE [raised |-> FALSE,
          df |-> [cols |-> file.header,
                  rows |-> [i \in 1..Len(file.lines) |->
                              [c \in file.header |->
                                  IF c = "Date" THEN parse_date(file.lines[i][c])
                                  ELSE parse_bool(file.lines[i][c])]]]]

\* Lines 32-35, one column: a column the file lacks is filled with pd.NA and
\* then cast; casting pd.NA to bool raises TypeError as soon as there is one
\* row to cast.  A column the file holds was typed by read_csv and the cast
\* keeps its values.
coerce_column(res, col) ==
    IF res.raised THEN res
    ELSE IF col \in res.df.cols THEN res
    ELSE IF res.df.rows = <<>>
         THEN [raised |-> FALSE, df |-> EmptyFrame(res.df.cols \cup {col})]
         ELSE [raised |-> TRUE, df |-> res.df]

RECURSIVE coerce_columns(_, _)
coerce_columns(res, cols) ==
    IF cols = {} THEN res
    ELSE LET c == CHOOSE x \in cols : TRUE
         IN coerce_columns(coerce_column(res, c), cols \ {c})

\* The try block of load_symptom_data without its handler.
load_try(file_path, structure, files) ==
    IF os_path_exists(files, file_path)
    THEN LET r == coerce_columns(read_csv(files[file_path]), DOMAIN structure)
         IN [raised |-> r.raised, df |-> r.df, msg |-> "loaded"]
    ELSE [raised |-> FALSE, df |-> empty_structured(structure), msg |-> "no_file"]

load_symptom_data_unguarded(file_path, structure, files) ==
    load_try(file_path, structure, files)

\* load_symptom_data: any exception of the try block is caught, reported and
\* replaced by the empty structured table.
load_symptom_data(file_path, structure, files) ==
    LET t == load_try(file_path, structure, files)
    IN IF t.raised
       THEN [raised |-> FALSE, df |-> empty_structured(structure), msg |-> "load_error"]
       ELSE t

\* save_symptom_data: makedirs of the path's directory, then to_csv; an
\* IOError of either is caught and reported, and the file is left as it was.
save_symptom_data(df, file_path, files) ==
    IF os_makedirs_raises(os_path_dirname(file_path))
    THEN [files |-> files, msg |-> "save_io_error"]
    ELSE [files |-> [files EXCEPT ![file_path] = to_csv(df)], msg |-> "saved"]

----------------------------------------------------------------------------
(* The upsert of the submit handler *)

\* Lines 137-148: the one-row table of the date input and the checkboxes;
\* every column of the structure is present, so nothing is filled in.
new_entry_df(selected_date, daily_symptoms_input) ==
    [cols |-> COLUMNS, rows |-> <<RowOf(selected_date, daily_symptoms_input)>>]

\* pd.concat([a, b], ignore_index=True) of two tables with the same columns.
concat(a, b) == [cols |-> a.cols \cup b.cols, rows |-> a.rows \o b.rows]

RECURSIVE TakeRows(_, _, _)
TakeRows(rows, keep, i) ==
    IF i > Len(rows) THEN <<>>
    ELSE (IF i \in keep THEN <<rows[i]>> ELSE <<>>) \o TakeRows(rows, keep, i + 1)

drop_duplicates_keep_first(df) ==
    LET keep == {i \in 1..Len(df.rows) :
                    \A j \in 1..(i - 1) : df.rows[j]["Date"] # df.rows[i]["Date"]}
    IN [cols |-> df.cols, rows |-> TakeRows(df.rows, keep, 1)]

\* drop_duplicates(subset=['Date'], keep='last'): a row stays when no later
\* row has its Date.
drop_duplicates(df) ==
    LET keep == {i \in 1..Len(df.rows) :
                    \A j \in (i + 1)..Len(df.rows) : df.rows[j]["Date"] # df.rows[i]["Date"]}
    IN [cols |-> df.cols, rows |-> TakeRows(df.rows, keep, 1)]

RECURSIVE SortRows(_)
SortRows(rows) ==
    IF rows = <<>> THEN <<>>
    ELSE LET m == CHOOSE i \in 1..Len(rows) :
                    /\ \A j \in 1..Len(rows) : rows[i]["Date"] <= rows[j]["Date"]
                    /\ \A j \in 1..(i - 1) : rows[j]["Date"] # rows[i]["Date"]
         IN <<rows[m]>> \o SortRows(TakeRows(rows, (1..Len(rows)) \ {m}, 1))

sort_values_unsorted(df) == df

\* sort_values(by='Date').reset_index(drop=True)
sort_values(df) == [cols |-> df.cols, rows |-> SortRows(df.rows)]

\* Lines 150-152.
upsert(df, entry_df) == sort_values(drop_duplicates(concat(df, entry_df)))

----------------------------------------------------------------------------
(* generate_monthly_summary *)

\* Lines 70-72: the Year and Month columns are assigned on the argument.
add_year_month(df) ==
    [cols |-> df.cols \cup {"Year", "Month"},
     rows |-> [i \in 1..Len(df.rows) |->
                 [c \in df.cols \cup {"Year", "Month"} |->
                     IF c = "Year" THEN dt_year(df.rows[i]["Date"])
                     ELSE IF c = "Month" THEN dt_month(df.rows[i]["Date"])
                     ELSE df.rows[i][c]]]]

KeyLessMonthFirst(a, b) == a[2] < b[2] \/ (a[2] = b[2] /\ a[1] < b[1])

\* The order of the keys ['Year', 'Month']: by year, then by month.
KeyLess(a, b) == a[1] < b[1] \/ (a[1] = b[1] /\ a[2] < b[2])

RECURSIVE SortKeys(_)
SortKeys(keys) ==
    IF keys = {} THEN <<>>
    ELSE LET m == CHOOSE k \in keys : \A o \in keys \ {k} : KeyLess(k, o)
         IN <<m>> \o SortKeys(keys \ {m})

\* The mean of a boolean column over the rows idx, as a fraction.
mean_all_rows(df, idx, col) ==
    Frac(Cardinality({i \in idx : df.rows[i][col]}), Len(df.rows))

mean(df, idx, col) ==
    Frac(Cardinality({i \in idx : df.rows[i][col]}), Cardinality(idx))

times100(f) == Frac(100 * f.num, f.den)

\* df.groupby(['Year', 'Month'])[symptom_cols].mean() * 100, reset_index():
\* one row per key, in the sorted key order groupby produces.
groupby_mean(df, symptom_cols) ==
    LET keys == SortKeys({<<df.rows[i]["Year"], df.rows[i]["Month"]>> : i \in 1..Len(df.rows)})
        members(k) == {i \in 1..Len(df.rows) :
                          df.rows[i]["Year"] = k[1] /\ df.rows[i]["Month"] = k[2]}
    IN [cols |-> {"Year", "Month"} \cup symptom_cols,
        rows |-> [n \in 1..Len(keys) |->
                    [c \in {"Year", "Month"} \cup symptom_cols |->
                        IF c = "Year" THEN keys[n][1]
                        ELSE IF c = "Month" THEN keys[n][2]
                        ELSE times100(mean(df, members(keys[n]), c))]]]

RECURSIVE SortSummaryRows(_)
SortSummaryRows(rows) ==
    IF rows = <<>> THEN <<>>
    ELSE LET key(i) == <<rows[i]["Year"], rows[i]["Month"]>>
             m == CHOOSE i \in 1..Len(rows) :
                    /\ \A j \in 1..Len(rows) : ~KeyLess(key(j), key(i))
                    /\ \A j \in 1..(i - 1) : key(j) # key(i)
         IN <<rows[m]>> \o SortSummaryRows(TakeRows(rows, (1..Len(rows)) \ {m}, 1))

\* Line 78: sort_values(by=['Year', 'Month']).reset_index(drop=True)
sort_values_year_month(summary) ==
    [cols |-> summary.cols, rows |-> SortSummaryRows(summary.rows)]

\* generate_monthly_summary: the summary it returns and the argument as the
\* call leaves it (the argument is the caller's object).
generate_monthly_summary(df) ==
    IF df_empty(df)
    THEN [summary |-> EmptyFrame({"Year", "Month"} \cup (df.cols \ {"Date"})),
          df |-> df, msg |-> "summary_empty"]
    ELSE LET d == add_year_month(df)
             symptom_cols == d.cols \ {"Date", "Year", "Month"}
         IN [summary |-> sort_values_year_month(groupby_mean(d, symptom_cols)),
             df |-> d, msg |-> "summary_generated"]

\* plot_monthly_summary, line 92: a non-empty summary gets a YearMonth column
\* (the pair stands for the text "YYYY-MM").
plot_monthly_summary(summary) ==
    IF df_empty(summary) THEN summary
    ELSE [cols |-> summary.cols \cup {"YearMonth"},
          rows |-> [i \in 1..Len(summary.rows) |->
                      [c \in summary.cols \cup {"YearMonth"} |->
                          IF c = "YearMonth"
                          THEN <<summary.rows[i]["Year"], summary.rows[i]["Month"]>>
                          ELSE summary.rows[i][c]]]]

----------------------------------------------------------------------------
(* The files the script may find at DATA_FILE when it starts *)

\* A header may lack any recognized column (an older file, or a foreign one).
FileHeaders == SUBSET COLUMNS

TextLines(header) ==
    {[c \in header |-> IF c = "Date" THEN <<dt_year(d), dt_month(d), dt_day(d)>>
                       ELSE IF f[c] THEN "True" ELSE "False"] :
        d \in Dates, f \in [header \ {"Date"} -> BOOLEAN]}

CsvFiles ==
    UNION {{[kind |-> "csv", header |-> h, lines |-> l] :
                l \in SeqsUpTo(TextLines(h), MaxRows)} : h \in FileHeaders}

InitialFiles == {NoFile, Malformed} \cup CsvFiles

NoSummary == EmptyFrame({})

----------------------------------------------------------------------------
(* The script: every interaction reruns it from the top *)

\* The first run of the script, no button pressed (line 119 only).
Init ==
    /\ fs \in [{DATA_FILE} -> InitialFiles]
    /\ LET l == load_symptom_data(DATA_FILE, data_entry_structure, fs)
       IN /\ all_symptom_data_df = l.df
          /\ diag = {l.msg}
          /\ crashed = l.raised
    /\ monthly_summary_df = NoSummary
    /\ run = "none"
    /\ recorded = <<>>
    /\ hist = <<>>
    /\ entries = <<>>

\* A rerun with no button pressed: line 119.
IdleRun ==
    LET l == load_symptom_data(DATA_FILE, data_entry_structure, fs)
    IN /\ all_symptom_data_df' = l.df
       /\ diag' = {l.msg}
       /\ crashed' = l.raised
       /\ monthly_summary_df' = NoSummary
       /\ run' = "none"
       /\ UNCHANGED <<fs, recorded, hist, entries>>

\* A rerun with "Record Symptoms" pressed: line 119, then lines 136-155.
SubmitRun(selected_date, daily_symptoms_input) ==
    LET l == load_symptom_data(DATA_FILE, data_entry_structure, fs)
        entry == new_entry_df(selected_date, daily_symptoms_input)
        t == upsert(l.df, entry)
        s == save_symptom_data(t, DATA_FILE, fs)
    IN /\ run' = "submit"
       /\ recorded' = entry.rows
       /\ monthly_summary_df' = NoSummary
       /\ UNCHANGED <<hist, entries>>
       /\ IF l.raised
          THEN crashed' = TRUE /\ diag' = {} /\ UNCHANGED <<fs, all_symptom_data_df>>
          ELSE /\ crashed' = FALSE
               /\ all_symptom_data_df' = t
               /\ fs' = s.files
               /\ diag' = {l.msg, s.msg, "success"}

\* A rerun with "View Monthly Summary and Plots" pressed: line 119, then
\* lines 165-183.
ViewRun ==
    LET l1 == load_symptom_data(DATA_FILE, data_entry_structure, fs)
        l2 == load_symptom_data(DATA_FILE, data_entry_structure, fs)
        g == generate_monthly_summary(l2.df)
    IN /\ run' = "view"
       /\ UNCHANGED <<fs, recorded, hist, entries>>
       /\ IF l1.raised \/ l2.raised
          THEN /\ crashed' = TRUE
               /\ diag' = {}
               /\ UNCHANGED <<all_symptom_data_df, monthly_summary_df>>
          ELSE /\ crashed' = FALSE
               /\ all_symptom_data_df' = g.df
               /\ monthly_summary_df' = plot_monthly_summary(g.summary)
               /\ diag' = {l1.msg, l2.msg, g.msg,
                           IF df_empty(g.summary) THEN "info_no_data" ELSE "displayed"}

Next ==
    \/ IdleRun
    \/ \E d \in Dates, f \in CheckboxInputs : SubmitRun(d, f)
    \/ ViewRun

Spec == Init /\ [][Next]_vars

----------------------------------------------------------------------------
(* The upsert of lines 137-152 applied repeatedly to a table in memory *)

LoadedTables == {[cols |-> COLUMNS, rows |-> r] : r \in SeqsUpTo(Records, MaxRows)}

LastTwo(s, x) == IF Len(s) < 2 THEN Append(s, x) ELSE <<s[2], x>>

InitUpsert ==
    /\ all_symptom_data_df \in LoadedTables
    /\ fs = [p \in {DATA_FILE} |-> NoFile]
    /\ monthly_summary_df = NoSummary
    /\ run = "none"
    /\ diag = {}
    /\ crashed = FALSE
    /\ recorded = <<>>
    /\ hist = <<>>
    /\ entries = <<>>

Upsert(selected_date, daily_symptoms_input) ==
    LET entry == new_entry_df(selected_date, daily_symptoms_input)
    IN /\ all_symptom_data_df' = upsert(all_symptom_data_df, entry)
       /\ hist' = LastTwo(hist, all_symptom_data_df)
       /\ entries' = LastTwo(entries, entry.rows[1])
       /\ UNCHANGED <<fs, monthly_summary_df, run, diag, crashed, recorded>>

NextUpsert == \E d \in Dates, f \in CheckboxInputs : Upsert(d, f)

SpecUpsert == InitUpsert /\ [][NextUpsert]_vars

----------------------------------------------------------------------------
(* Properties *)

RowsWithDate(df, d) == {i \in 1..Len(df.rows) : df.rows[i]["Date"] = d}

MaxOf(S) == CHOOSE x \in S : \A y \in S : y <= x

YearMonthOf(ts) == <<ts \div 10000, (ts \div 100) % 100>>

TheFile == fs[DATA_FILE]

\* C1: in SpecUpsert, when the last two upserted records r1, r2 have the same
\* date, the table holds exactly one record for that date and it equals r2;
\* for every other date the table holds what the table before the two
\* upserts held for it (its one record; the last one where that table held
\* several) and nothing for a date that table did not hold.
C1_UpsertTwiceLastWins ==
    (Len(entries) = 2 /\ entries[1]["Date"] = entries[2]["Date"]) =>
        LET T == hist[1]
            now == all_symptom_data_df
            d == entries[2]["Date"]
        IN /\ Cardinality(RowsWithDate(now, d)) = 1
           /\ \A i \in RowsWithDate(now, d) : now.rows[i] = entries[2]
           /\ now.cols = T.cols
           /\ \A o \in Dates \ {d} :
                IF RowsWithDate(T, o) = {}
                THEN RowsWithDate(now, o) = {}
                ELSE /\ Cardinality(RowsWithDate(now, o)) = 1
                     /\ \A i \in RowsWithDate(now, o) :
                            now.rows[i] = T.rows[MaxOf(RowsWithDate(T, o))]

\* C1 witness: two upserts for one date with different flags, onto a table
\* that already held that date and another date.
C1_Witness ==
    /\ Len(entries) = 2
    /\ entries[1]["Date"] = entries[2]["Date"]
    /\ entries[1] # entries[2]
    /\ RowsWithDate(hist[1], entries[2]["Date"]) # {}
    /\ \E o \in Dates \ {entries[2]["Date"]} : RowsWithDate(hist[1], o) # {}

\* C2: in SpecUpsert, after one or more upserts, from any starting table, the
\* table's dates are strictly ascending (so no date occurs twice).
C2_SortedUniqueAfterUpsert ==
    entries # <<>> =>
        \A i \in 1..(Len(all_symptom_data_df.rows) - 1) :
            all_symptom_data_df.rows[i]["Date"] < all_symptom_data_df.rows[i + 1]["Date"]

\* C2 witness: two upserts onto a starting table that was unsorted, leaving a
\* table of two rows.
C2_Witness ==
    /\ Len(entries) = 2
    /\ Len(hist[1].rows) = 2
    /\ hist[1].rows[1]["Date"] > hist[1].rows[2]["Date"]
    /\ Len(all_symptom_data_df.rows) = 2

\* C3 (as claimed): after a submit run saved the table to DATA_FILE, loading
\* DATA_FILE returns the rows of that table.
C3_RoundTrip ==
    (run = "submit" /\ ~crashed) =>
        load_symptom_data(DATA_FILE, data_entry_structure, fs).df.rows
            = all_symptom_data_df.rows

\* C4 (as claimed): a submit run that starts with no file at DATA_FILE leaves
\* the file in existence, holding exactly the rows of the table.
C4_SaveCreatesFile ==
    [][(TheFile.kind = "absent" /\ run' = "submit")
          => (fs'[DATA_FILE].kind = "csv"
              /\ fs'[DATA_FILE] = to_csv(all_symptom_data_df'))]_vars

\* C5: after a view run the summary has exactly one row for each
\* (year, month) of the table's dates, no other row, and its rows are
\* strictly ascending by (year, month).
C5_SummaryKeysSorted ==
    (run = "view" /\ ~crashed) =>
        LET T == all_symptom_data_df
            S == monthly_summary_df
            keys == {YearMonthOf(T.rows[i]["Date"]) : i \in 1..Len(T.rows)}
        IN /\ {<<S.rows[n]["Year"], S.rows[n]["Month"]>> : n \in 1..Len(S.rows)} = keys
           /\ Len(S.rows) = Cardinality(keys)
           /\ \A n \in 1..(Len(S.rows) - 1) :
                \/ S.rows[n]["Year"] < S.rows[n + 1]["Year"]
                \/ /\ S.rows[n]["Year"] = S.rows[n + 1]["Year"]
                   /\ S.rows[n]["Month"] < S.rows[n + 1]["Month"]

\* C5 witness: a view run over a table whose rows are in descending date
\* order and lie in two different months.
C5_Witness ==
    /\ run = "view"
    /\ Len(monthly_summary_df.rows) = 2
    /\ Len(all_symptom_data_df.rows) = 2
    /\ all_symptom_data_df.rows[1]["Date"] > all_symptom_data_df.rows[2]["Date"]

\* C6: after a view run over a non-empty table, every (year, month) of the
\* table has a summary row, and in every summary row every symptom's value v
\* satisfies v = 100 * (records of that month with the flag) / (records of
\* that month), and 0 <= v <= 100.
C6_PrevalencePercentage ==
    (run = "view" /\ ~crashed /\ all_symptom_data_df.rows # <<>>) =>
        LET T == all_symptom_data_df
            S == monthly_summary_df
            group(k) == {i \in 1..Len(T.rows) : YearMonthOf(T.rows[i]["Date"]) = k}
        IN /\ \A i \in 1..Len(T.rows) :
                \E n \in 1..Len(S.rows) :
                    <<S.rows[n]["Year"], S.rows[n]["Month"]>> = YearMonthOf(T.rows[i]["Date"])
           /\ \A n \in 1..Len(S.rows) : \A c \in SYMPTOMS :
                LET g == group(<<S.rows[n]["Year"], S.rows[n]["Month"]>>)
                    cnt == Cardinality({i \in g : T.rows[i][c]})
                    v == S.rows[n][c]
                IN /\ g # {}
                   /\ v.den > 0
                   /\ v.num * Cardinality(g) = 100 * cnt * v.den
                   /\ 0 <= v.num
                   /\ v.num <= 100 * v.den

\* C6 witness: a month with two records, one with the flag and one without,
\* whose summary value is 50.
C6_Witness ==
    /\ run = "view"
    /\ Len(all_symptom_data_df.rows) = 2
    /\ Len(monthly_summary_df.rows) = 1
    /\ \E c \in SYMPTOMS : monthly_summary_df.rows[1][c] = [num |-> 50, den |-> 1]

\* C7: no script run lets an exception escape, and with DATA_FILE absent or
\* malformed the load yields the empty table with the Date column and every
\* symptom column and reports it: an idle or view run leaves that table, a
\* submit run leaves it with the new record only.
C7_LoadNeverFails ==
    /\ ~crashed
    /\ TheFile.kind \in {"absent", "malformed"} =>
          /\ all_symptom_data_df.cols = COLUMNS
          /\ all_symptom_data_df.rows = (IF run = "submit" THEN recorded ELSE <<>>)
          /\ (IF TheFile.kind = "absent" THEN "no_file" ELSE "load_error") \in diag

\* C7 witness: a view run with a malformed file at DATA_FILE.
C7_Witness ==
    /\ TheFile.kind = "malformed"
    /\ run = "view"
    /\ "load_error" \in diag

\* C8 (as claimed): loading a well-formed file that lacks a symptom column
\* gives a table with every symptom column and all of the file's rows.
C8_SchemaEvolutionKeepsRows ==
    (TheFile.kind = "csv" /\ "Date" \in TheFile.header /\ run \in {"none", "view"}) =>
        /\ SYMPTOMS \subseteq all_symptom_data_df.cols
        /\ Len(all_symptom_data_df.rows) = Len(TheFile.lines)

\* C9 (as claimed): a view run after a record was submitted loads a table
\* that contains the record and produces a summary row for its month.
C9_RecordedDayInSummary ==
    (run = "view" /\ ~crashed /\ recorded # <<>>) =>
        /\ \E i \in 1..Len(all_symptom_data_df.rows) :
              \A c \in COLUMNS : all_symptom_data_df.rows[i][c] = recorded[1][c]
        /\ \E n \in 1..Len(monthly_summary_df.rows) :
              <<monthly_summary_df.rows[n]["Year"], monthly_summary_df.rows[n]["Month"]>>
                  = YearMonthOf(recorded[1]["Date"])

\* C10 (as claimed): after a view run the table is the loaded table, with the
\* columns and rows it had before generate_monthly_summary was called on it.
C10_SummarizeReadOnly ==
    (run = "view" /\ ~crashed) =>
        /\ all_symptom_data_df.cols = COLUMNS
        /\ all_symptom_data_df
              = load_symptom_data(DATA_FILE, data_entry_structure, fs).df

====
